---------------------------- MODULE Spec2Model ----------------------------
(***************************************************************************)
(* Consensus validation of the 6zip/dash node: the difficulty engine of    *)
(* src/pow.cpp and the Asset Lock / Asset Unlock validator of              *)
(* src/evo/assetlocktx.cpp.                                                *)
(*                                                                         *)
(* A 256-bit target (arith_uint256) is a tuple of WIDTH bytes, least       *)
(* significant first; every operation on it is done modulo 2^256 as the    *)
(* fixed-width type does.  A compact target (nBits, a uint32) is the       *)
(* record [nSize, nMant]: nSize is nBits >> 24 and nMant is                *)
(* nBits & 0x00ffffff (sign bit 0x00800000 included).                      *)
(***************************************************************************)
EXTENDS Integers, Sequences, FiniteSets, TLC

VARIABLES
    params,      \* Consensus::Params of the network, immutable after Init
    chain,       \* the block index: chain[h + 1] is the CBlockIndex at height h
    creditPool,  \* CCreditPool::indexes, the consumed Asset Unlock indexes
    tipHeight,   \* pindexPrev->nHeight seen by transaction validation
    accepted,    \* history: how many times each unlock index was accepted
    call         \* the last validation call: its inputs and its verdict

vars == <<params, chain, creditPool, tipHeight, accepted, call>>

-----------------------------------------------------------------------------
(* arith_uint256 *)

WIDTH == 32

Bytes256 == 1..WIDTH

Zero256 == [i \in Bytes256 |-> 0]

AllOnes256 == [i \in Bytes256 |-> 255]

\* arith_uint256(uint64_t) for a value below 2^31
FromWord(w) == [i \in Bytes256 |-> IF i <= 4 THEN (w \div (256 ^ (i - 1))) % 256 ELSE 0]

\* base_uint::GetLow64() of a value that fits three bytes
GetLow(a) == a[1] + 256 * a[2] + 65536 * a[3]

\* (bits() + 7) / 8: the number of significant bytes
SizeBytes(a) ==
    LET nz == {i \in Bytes256 : a[i] # 0}
    IN  IF nz = {} THEN 0 ELSE CHOOSE i \in nz : \A j \in nz : j <= i

\* operator<<= by 8 * k bits
ShiftLeftBytes(a, k) == [i \in Bytes256 |-> IF i - k >= 1 THEN a[i - k] ELSE 0]

\* operator>>= by 8 * k bits
ShiftRightBytes(a, k) == [i \in Bytes256 |-> IF i + k <= WIDTH THEN a[i + k] ELSE 0]

\* base_uint::CompareTo: -1, 0 or 1, scanning from the most significant limb
RECURSIVE CompareFrom(_, _, _)
CompareFrom(a, b, i) ==
    IF i = 0 THEN 0
    ELSE IF a[i] < b[i] THEN -1
    ELSE IF a[i] > b[i] THEN 1
    ELSE CompareFrom(a, b, i - 1)

CompareTo(a, b) == CompareFrom(a, b, WIDTH)

\* operator*=(uint32_t b32) from limb i on with the carry so far; the carry out of
\* the top limb is dropped
RECURSIVE MulFrom(_, _, _, _)
MulFrom(a, m, i, carry) ==
    IF i > WIDTH THEN << >>
    ELSE LET n == carry + m * a[i]
         IN  <<n % 256>> \o MulFrom(a, m, i + 1, n \div 256)

MulWord(a, m) == MulFrom(a, m, 1, 0)

\* operator+= from limb i on with the carry so far; the carry out of the top limb
\* is dropped
RECURSIVE AddFrom(_, _, _, _)
AddFrom(a, b, i, carry) ==
    IF i > WIDTH THEN << >>
    ELSE LET n == carry + a[i] + b[i]
         IN  <<n % 256>> \o AddFrom(a, b, i + 1, n \div 256)

Add256(a, b) == AddFrom(a, b, 1, 0)

\* operator/= by a divisor d with 0 < d < 2^23: the limbs i..1 of the quotient,
\* rem being the remainder of the limbs above i (a quotient limb of 0 leaves n as
\* the remainder)
RECURSIVE DivFrom(_, _, _, _)
DivFrom(a, d, i, rem) ==
    IF i = 0 THEN << >>
    ELSE LET n == rem * 256 + a[i]
             q == n \div d
         IN  IF q = 0
             THEN Append(DivFrom(a, d, i - 1, n), 0)
             ELSE Append(DivFrom(a, d, i - 1, n % d), q)

DivWord(a, d) == DivFrom(a, d, WIDTH, 0)

\* arith_uint256::SetCompact(nCompact, &fNegative, &fOverflow)
SetCompact(nCompact) ==
    LET nSize == nCompact.nSize
        word  == nCompact.nMant % 8388608
        nWord == IF nSize <= 3 THEN word \div (256 ^ (3 - nSize)) ELSE word
        value == IF nSize <= 3 THEN FromWord(nWord)
                 ELSE ShiftLeftBytes(FromWord(nWord), nSize - 3)
    IN  [value     |-> value,
         fNegative |-> nWord # 0 /\ nCompact.nMant >= 8388608,
         fOverflow |-> nWord # 0 /\ (\/ nSize > 34
                                     \/ (nWord > 255 /\ nSize > 33)
                                     \/ (nWord > 65535 /\ nSize > 32))]

\* SetCompact(nCompact) with both flag pointers null
Decode(nCompact) == SetCompact(nCompact).value

\* arith_uint256::GetCompact(false)
GetCompact(a) ==
    LET nSize == SizeBytes(a)
        low   == IF nSize <= 3 THEN GetLow(a) * (256 ^ (3 - nSize))
                 ELSE GetLow(ShiftRightBytes(a, nSize - 3))
    IN  IF low >= 8388608
        THEN [nSize |-> nSize + 1, nMant |-> low \div 256]
        ELSE [nSize |-> nSize, nMant |-> low]

Compact(size, mant) == [nSize |-> size, nMant |-> mant]

-----------------------------------------------------------------------------
(* Consensus::Params *)

\* the values of powLimit (uint256, written as in uint256S) of the modelled networks
MainPowLimit == "00000fffff000000000000000000000000000000000000000000000000000000"

FilledPowLimit == "00000fffffffffffffffffffffffffffffffffffffffffffffffffffffffffff"

WidePowLimit == "7fffff0000000000000000000000000000000000000000000000000000000000"

\* UintToArith256 of a powLimit
UintToArith256(u) ==
    CASE u = MainPowLimit   -> Decode(Compact(30, 1048575))
      [] u = FilledPowLimit -> [i \in Bytes256 |->
                                   IF i <= 29 THEN 255 ELSE IF i = 30 THEN 15 ELSE 0]
      [] u = WidePowLimit   -> Decode(Compact(32, 8388607))

\* Consensus::Params::DifficultyAdjustmentInterval()
DifficultyAdjustmentInterval(p) == p.nPowTargetTimespan \div p.nPowTargetSpacing

-----------------------------------------------------------------------------
(* pow.cpp *)

\* CheckProofOfWork with "hash > target" weakened to "hash >= target"
CheckProofOfWork_StrictHash(hash, nBits, p) ==
    LET d == SetCompact(nBits)
    IN  IF \/ d.fNegative
           \/ d.value = Zero256
           \/ d.fOverflow
           \/ CompareTo(d.value, UintToArith256(p.powLimit)) > 0
        THEN FALSE
        ELSE IF CompareTo(hash, d.value) >= 0 THEN FALSE
        ELSE TRUE

CheckProofOfWork(hash, nBits, p) ==
    LET d == SetCompact(nBits)
    IN  IF \/ d.fNegative
           \/ d.value = Zero256
           \/ d.fOverflow
           \/ CompareTo(d.value, UintToArith256(p.powLimit)) > 0
        THEN FALSE
        ELSE IF CompareTo(hash, d.value) > 0 THEN FALSE
        ELSE TRUE


\* CBlockIndex at height h of the block index c
BlockAt(c, h) == c[h + 1]

\* the tip: pindexLast of a chain c
TipHeight(c) == Len(c) - 1

\* the averaging loop of BlockTimeVarianceAdjustment, entered with nCountBlocks = n,
\* pindex at height h and bnPastTargetAvg = avg; yields the average and the final pindex
RECURSIVE VarianceWalk(_, _, _, _, _)
VarianceWalk(c, p, n, h, avg) ==
    LET bnTarget == Decode(BlockAt(c, h).nBits)
        newAvg   == IF n = 1 THEN bnTarget
                    ELSE DivWord(Add256(MulWord(avg, n), bnTarget), n + 1)
        newH     == IF n # p.nDifficultyAdjustmentRange THEN h - 1 ELSE h
    IN  IF n >= p.nDifficultyAdjustmentRange
        THEN [bnPastTargetAvg |-> newAvg, pindex |-> newH]
        ELSE VarianceWalk(c, p, n + 1, newH, newAvg)

\* nActualTimespan of BlockTimeVarianceAdjustment after both clamps
VarianceTimespan(c, p) ==
    LET w       == VarianceWalk(c, p, 1, TipHeight(c), Zero256)
        actual  == BlockAt(c, TipHeight(c)).nTime - BlockAt(c, w.pindex).nTime
        target  == p.nDifficultyAdjustmentRange * p.nPowTargetSpacing
        raised  == IF actual < target \div 4 THEN target \div 4 ELSE actual
    IN  IF raised > target * 4 THEN target * 4 ELSE raised

BlockTimeVarianceAdjustment(c, p) ==
    IF TipHeight(c) < p.nDifficultyAdjustmentRange
    THEN GetCompact(UintToArith256(p.powLimit))
    ELSE
        LET w          == VarianceWalk(c, p, 1, TipHeight(c), Zero256)
            target     == p.nDifficultyAdjustmentRange * p.nPowTargetSpacing
            bnNew      == DivWord(MulWord(w.bnPastTargetAvg, VarianceTimespan(c, p)), target)
            bnPowLimit == IF (TipHeight(c) \div p.nHeightInterval) % 2 = 1
                          THEN MulWord(UintToArith256(p.powLimit), 2)
                          ELSE UintToArith256(p.powLimit)
        IN  IF CompareTo(bnNew, bnPowLimit) > 0
            THEN GetCompact(bnPowLimit)
            ELSE GetCompact(bnNew)

\* CalculateNextWorkRequired dividing before it multiplies
CalculateNextWorkRequired_DivideFirst(pindexLast, nFirstBlockTime, p) ==
    IF p.fPowNoRetargeting THEN pindexLast.nBits
    ELSE
        LET actual == pindexLast.nTime - nFirstBlockTime
            raised == IF actual < p.nPowTargetTimespan \div 4
                      THEN p.nPowTargetTimespan \div 4 ELSE actual
            span   == IF raised > p.nPowTargetTimespan * 4
                      THEN p.nPowTargetTimespan * 4 ELSE raised
            bnNew  == MulWord(DivWord(Decode(pindexLast.nBits), p.nPowTargetTimespan), span)
        IN  IF CompareTo(bnNew, UintToArith256(p.powLimit)) > 0
            THEN GetCompact(UintToArith256(p.powLimit))
            ELSE GetCompact(bnNew)

CalculateNextWorkRequired(pindexLast, nFirstBlockTime, p) ==
    IF p.fPowNoRetargeting THEN pindexLast.nBits
    ELSE
        LET actual == pindexLast.nTime - nFirstBlockTime
            raised == IF actual < p.nPowTargetTimespan \div 4
                      THEN p.nPowTargetTimespan \div 4 ELSE actual
            span   == IF raised > p.nPowTargetTimespan * 4
                      THEN p.nPowTargetTimespan * 4 ELSE raised
            bnNew  == DivWord(MulWord(Decode(pindexLast.nBits), span), p.nPowTargetTimespan)
        IN  IF CompareTo(bnNew, UintToArith256(p.powLimit)) > 0
            THEN GetCompact(UintToArith256(p.powLimit))
            ELSE GetCompact(bnNew)

\* the walk of the min-difficulty rule: the height of the last block that is an
\* interval boundary, the genesis block, or not at nProofOfWorkLimit
RECURSIVE LastNonSpecialHeight(_, _, _)
LastNonSpecialHeight(c, p, h) ==
    IF /\ h > 0
       /\ h % DifficultyAdjustmentInterval(p) # 0
       /\ BlockAt(c, h).nBits = GetCompact(UintToArith256(p.powLimit))
    THEN LastNonSpecialHeight(c, p, h - 1)
    ELSE h

\* GetNextWorkRequired(pindexLast = tip of c, pblock with time blockTime, params)
GetNextWorkRequired(c, blockTime, p) ==
    LET nHeight == TipHeight(c)
        last    == BlockAt(c, nHeight)
    IN  IF (nHeight + 1) % DifficultyAdjustmentInterval(p) # 0
        THEN IF p.fPowAllowMinDifficultyBlocks
             THEN IF blockTime > last.nTime + p.nPowTargetSpacing * 2
                  THEN GetCompact(UintToArith256(p.powLimit))
                  ELSE BlockAt(c, LastNonSpecialHeight(c, p, nHeight)).nBits
             ELSE IF nHeight + 1 > p.nPowRTHeight
                  THEN BlockTimeVarianceAdjustment(c, p)
                  ELSE last.nBits
        ELSE CalculateNextWorkRequired(
                 last,
                 BlockAt(c, nHeight - (DifficultyAdjustmentInterval(p) - 1)).nTime,
                 p)

\* the "Round and compare" bound of PermittedDifficultyTransition for a timespan bound
RoundedBound(p, old_nbits, timespan) ==
    LET scaled  == DivWord(MulWord(Decode(old_nbits), timespan), p.nPowTargetTimespan)
        clamped == IF CompareTo(scaled, UintToArith256(p.powLimit)) > 0 THEN UintToArith256(p.powLimit) ELSE scaled
    IN  Decode(GetCompact(clamped))

\* PermittedDifficultyTransition comparing the minimum without the compact rounding
PermittedDifficultyTransition_UnroundedMin(p, height, old_nbits, new_nbits) ==
    IF p.fPowAllowMinDifficultyBlocks THEN TRUE
    ELSE IF height % DifficultyAdjustmentInterval(p) = 0
    THEN
        LET observed_new_target == Decode(new_nbits)
            scaled  == DivWord(MulWord(Decode(old_nbits), p.nPowTargetTimespan \div 4),
                               p.nPowTargetTimespan)
            minimum == IF CompareTo(scaled, UintToArith256(p.powLimit)) > 0 THEN UintToArith256(p.powLimit) ELSE scaled
        IN  IF CompareTo(RoundedBound(p, old_nbits, p.nPowTargetTimespan * 4),
                         observed_new_target) < 0
            THEN FALSE
            ELSE IF CompareTo(minimum, observed_new_target) > 0
            THEN FALSE
            ELSE TRUE
    ELSE IF old_nbits # new_nbits THEN FALSE
    ELSE TRUE

PermittedDifficultyTransition(p, height, old_nbits, new_nbits) ==
    IF p.fPowAllowMinDifficultyBlocks THEN TRUE
    ELSE IF height % DifficultyAdjustmentInterval(p) = 0
    THEN
        LET smallest_timespan   == p.nPowTargetTimespan \div 4
            largest_timespan    == p.nPowTargetTimespan * 4
            observed_new_target == Decode(new_nbits)
            maximum_new_target  == RoundedBound(p, old_nbits, largest_timespan)
            minimum_new_target  == RoundedBound(p, old_nbits, smallest_timespan)
        IN  IF CompareTo(maximum_new_target, observed_new_target) < 0
            THEN FALSE
            ELSE IF CompareTo(minimum_new_target, observed_new_target) > 0
            THEN FALSE
            ELSE TRUE
    ELSE IF old_nbits # new_nbits THEN FALSE
    ELSE TRUE

-----------------------------------------------------------------------------
(* Networks and inputs of the difficulty engine *)

\* the largest height of a modelled chain
MaxHeight == 4

\* the number of blocks of a retarget interval in the modelled networks
IntervalBlocks == 4

NetParams(limit, allowMin, noRetarget) ==
    [powLimit                     |-> limit,
     nPowTargetSpacing            |-> 600,
     nPowTargetTimespan           |-> 600 * IntervalBlocks,
     nDifficultyAdjustmentRange   |-> IntervalBlocks \div 2,
     nHeightInterval              |-> 2,
     nPowRTHeight                 |-> 1,
     fPowAllowMinDifficultyBlocks |-> allowMin,
     fPowNoRetargeting            |-> noRetarget]

\* the state of the components a specification does not exercise
NoChain == chain = << >>

NoCreditPool ==
    /\ creditPool = {}
    /\ tipHeight = 0
    /\ accepted = << >>

\* the last call has returned from op
Returned(op) == call.op = op /\ call.pc = "done"

\* a target one above / one below (modulo 2^256)
Succ256(a) == Add256(a, FromWord(1))

Pred256(a) == Add256(a, AllOnes256)

\* the compact word next to c: its mantissa moved by d
Nudge(c, d) ==
    IF c.nMant + d >= 0 /\ c.nMant + d < 16777216
    THEN Compact(c.nSize, c.nMant + d) ELSE c

\* a <= b as unsigned 256-bit integers: equal, or smaller at the most significant
\* byte where they differ
NumLeq(a, b) ==
    \/ a = b
    \/ \E i \in Bytes256 : a[i] < b[i] /\ \A j \in (i + 1)..WIDTH : a[j] = b[j]

\* the smaller of two unsigned 256-bit integers
Min256(a, b) == IF NumLeq(a, b) THEN a ELSE b

\* x clamped to [lo, hi]
Clamp(x, lo, hi) == IF x < lo THEN lo ELSE IF x > hi THEN hi ELSE x

\* floor(a / 2): a shifted right by one bit
Half256(a) ==
    [i \in Bytes256 |-> (a[i] \div 2) + (IF i < WIDTH THEN (a[i + 1] % 2) * 128 ELSE 0)]

-----------------------------------------------------------------------------
(* SpecPow: CheckProofOfWork applied to bounded inputs *)

PowBits ==
    { Compact(30, 1048575), Compact(30, 1048574), Compact(30, 1048576),
      Compact(29, 65535),   Compact(30, 9437183), Compact(35, 1),
      Compact(34, 511),     Compact(33, 65536),   Compact(32, 8388607),
      Compact(33, 255),     Compact(3, 0),        Compact(1, 18),
      Compact(1, 8388608),  Compact(3, 1),        Compact(255, 1),
      Compact(0, 8388607),  Compact(2, 32768),    Compact(4, 8388609) }

PowHashes(nBits, limit) ==
    { Zero256, FromWord(1), Decode(nBits), Succ256(Decode(nBits)),
      Pred256(Decode(nBits)), limit, Succ256(limit), AllOnes256 }

InitPow ==
    /\ params \in { NetParams(l, FALSE, FALSE) :
                      l \in {MainPowLimit, FilledPowLimit, WidePowLimit} }
    /\ \E nBits \in PowBits :
           \E hash \in PowHashes(nBits, UintToArith256(params.powLimit)) :
               call = [op |-> "CheckProofOfWork", pc |-> "call",
                       hash |-> hash, nBits |-> nBits]
    /\ NoChain
    /\ NoCreditPool

CheckProofOfWorkCall ==
    /\ call.op = "CheckProofOfWork"
    /\ call.pc = "call"
    /\ call' = [op     |-> "CheckProofOfWork",
                pc     |-> "done",
                hash   |-> call.hash,
                nBits  |-> call.nBits,
                result |-> CheckProofOfWork(call.hash, call.nBits, params)]
    /\ UNCHANGED <<params, chain, creditPool, tipHeight, accepted>>

NextPow == CheckProofOfWorkCall

SpecPow == InitPow /\ [][NextPow]_vars

\* C4: CheckProofOfWork returns true if and only if nBits decodes without the
\* negative flag and without overflow to a non-zero target <= powLimit and
\* hash <= target, both as unsigned 256-bit integers.
C4_CheckProofOfWorkIff ==
    Returned("CheckProofOfWork") =>
        LET d == SetCompact(call.nBits)
        IN  call.result <=> /\ ~d.fNegative
                            /\ ~d.fOverflow
                            /\ d.value # Zero256
                            /\ NumLeq(d.value, UintToArith256(params.powLimit))
                            /\ NumLeq(call.hash, d.value)

\* C4 witness: a hash equal to a target that equals powLimit is accepted
C4_Witness ==
    /\ Returned("CheckProofOfWork")
    /\ call.result
    /\ call.hash = Decode(call.nBits)
    /\ call.hash = UintToArith256(params.powLimit)

-----------------------------------------------------------------------------
(* SpecTransition: PermittedDifficultyTransition applied to bounded inputs *)

TransitionHeights ==
    { 0, 1, IntervalBlocks - 1, IntervalBlocks, IntervalBlocks + 1,
      2 * IntervalBlocks, 3 * IntervalBlocks + 2 }

TransitionBits ==
    { Compact(30, 1048575), Compact(30, 262143), Compact(29, 65535),
      Compact(27, 1193046), Compact(3, 65535),   Compact(32, 8388607) }

\* decode(old) multiplied by a timespan bound, then divided by nPowTargetTimespan,
\* clamped to powLimit and re-encoded through the compact form
ScaledBound(p, old, bound) ==
    Decode(GetCompact(Min256(
        DivWord(MulWord(Decode(old), bound), p.nPowTargetTimespan), UintToArith256(p.powLimit))))

\* claimed new targets around the two bounds of a transition from old
CandidateBits(p, old) ==
    LET hi == GetCompact(ScaledBound(p, old, p.nPowTargetTimespan * 4))
        lo == GetCompact(ScaledBound(p, old, p.nPowTargetTimespan \div 4))
    IN  { old, Nudge(old, 1), hi, Nudge(hi, 1), Nudge(hi, -1),
          lo, Nudge(lo, 1), Nudge(lo, -1), GetCompact(UintToArith256(p.powLimit)) }

InitTransition ==
    /\ params \in { NetParams(l, a, FALSE) :
                      l \in {MainPowLimit, FilledPowLimit}, a \in BOOLEAN }
    /\ \E height \in TransitionHeights, old \in TransitionBits :
           \E new \in CandidateBits(params, old) :
               call = [op |-> "PermittedDifficultyTransition", pc |-> "call",
                       height |-> height, old_nbits |-> old, new_nbits |-> new]
    /\ NoChain
    /\ NoCreditPool

PermittedDifficultyTransitionCall ==
    /\ call.op = "PermittedDifficultyTransition"
    /\ call.pc = "call"
    /\ call' = [op        |-> "PermittedDifficultyTransition",
                pc        |-> "done",
                height    |-> call.height,
                old_nbits |-> call.old_nbits,
                new_nbits |-> call.new_nbits,
                result    |-> PermittedDifficultyTransition(
                                  params, call.height, call.old_nbits, call.new_nbits)]
    /\ UNCHANGED <<params, chain, creditPool, tipHeight, accepted>>

NextTransition == PermittedDifficultyTransitionCall

SpecTransition == InitTransition /\ [][NextTransition]_vars

\* C5: with fPowAllowMinDifficultyBlocks false PermittedDifficultyTransition is true
\* exactly when, off an interval boundary, newBits = oldBits and, on a boundary,
\* minimum <= decode(newBits) <= maximum for the two re-encoded clamped bounds;
\* with the flag true it is true for every input.
C5_PermittedExactly ==
    Returned("PermittedDifficultyTransition") =>
        call.result <=>
            \/ params.fPowAllowMinDifficultyBlocks
            \/ /\ call.height % DifficultyAdjustmentInterval(params) # 0
               /\ call.new_nbits = call.old_nbits
            \/ /\ call.height % DifficultyAdjustmentInterval(params) = 0
               /\ NumLeq(ScaledBound(params, call.old_nbits, params.nPowTargetTimespan \div 4),
                         Decode(call.new_nbits))
               /\ NumLeq(Decode(call.new_nbits),
                         ScaledBound(params, call.old_nbits, params.nPowTargetTimespan * 4))

\* C5 witness: on a boundary a new target other than the old one, equal to the
\* re-encoded minimum, is permitted
C5_Witness ==
    /\ Returned("PermittedDifficultyTransition")
    /\ ~params.fPowAllowMinDifficultyBlocks
    /\ call.height > 0
    /\ call.height % DifficultyAdjustmentInterval(params) = 0
    /\ call.new_nbits # call.old_nbits
    /\ Decode(call.new_nbits)
           = ScaledBound(params, call.old_nbits, params.nPowTargetTimespan \div 4)
    /\ call.result

-----------------------------------------------------------------------------
(* SpecRetarget: CalculateNextWorkRequired applied to bounded inputs *)

RetargetBits ==
    { Compact(30, 1048575), Compact(30, 262143), Compact(29, 65535),
      Compact(27, 1193046), Compact(3, 65535),   Compact(2, 32512) }

\* prevHeader.time - firstBlockTime of the modelled calls
RetargetSpans(p) ==
    { 0 - p.nPowTargetSpacing, 0,
      p.nPowTargetTimespan \div 4 - 1, p.nPowTargetTimespan \div 4,
      p.nPowTargetTimespan \div 4 + 1, p.nPowTargetTimespan \div 2,
      p.nPowTargetTimespan, p.nPowTargetTimespan * 2,
      p.nPowTargetTimespan * 4 - 1, p.nPowTargetTimespan * 4,
      p.nPowTargetTimespan * 4 + 1, p.nPowTargetTimespan * 10 }

\* the time of the first block of the interval in the modelled calls
FirstBlockTimes == { 1000000 }

InitRetarget ==
    /\ params \in { NetParams(l, FALSE, n) :
                      l \in {MainPowLimit, FilledPowLimit}, n \in BOOLEAN }
    /\ \E nBits \in RetargetBits, span \in RetargetSpans(params), first \in FirstBlockTimes :
           call = [op |-> "CalculateNextWorkRequired", pc |-> "call",
                   pindexLast |-> [nTime |-> first + span, nBits |-> nBits],
                   nFirstBlockTime |-> first]
    /\ NoChain
    /\ NoCreditPool

CalculateNextWorkRequiredCall ==
    /\ call.op = "CalculateNextWorkRequired"
    /\ call.pc = "call"
    /\ call' = [op              |-> "CalculateNextWorkRequired",
                pc              |-> "done",
                pindexLast      |-> call.pindexLast,
                nFirstBlockTime |-> call.nFirstBlockTime,
                result          |-> CalculateNextWorkRequired(
                                        call.pindexLast, call.nFirstBlockTime, params)]
    /\ UNCHANGED <<params, chain, creditPool, tipHeight, accepted>>

NextRetarget == CalculateNextWorkRequiredCall

SpecRetarget == InitRetarget /\ [][NextRetarget]_vars

\* C6: with fPowNoRetargeting false CalculateNextWorkRequired returns the compact
\* encoding of min(decode(nBits) * ts / nPowTargetTimespan, powLimit) with ts the
\* block-time difference clamped to [timespan/4, timespan*4], multiplied before
\* divided, so a timespan of half the target timespan halves the old target up to
\* compact rounding; with fPowNoRetargeting true it returns nBits unchanged.
\* (The products of the modelled networks stay below 2^256.)
C6_RetargetFormula ==
    Returned("CalculateNextWorkRequired") =>
        LET old  == Decode(call.pindexLast.nBits)
            T    == params.nPowTargetTimespan
            span == call.pindexLast.nTime - call.nFirstBlockTime
            ts   == Clamp(span, T \div 4, T * 4)
        IN  IF params.fPowNoRetargeting
            THEN call.result = call.pindexLast.nBits
            ELSE /\ call.result
                        = GetCompact(Min256(DivWord(MulWord(old, ts), T), UintToArith256(params.powLimit)))
                 /\ span * 2 = T =>
                        call.result = GetCompact(Min256(Half256(old), UintToArith256(params.powLimit)))

\* C6 witness: retargeting on, no clamp, half the target timespan, and a small old
\* target, where dividing first would lose the low bits
C6_Witness ==
    /\ Returned("CalculateNextWorkRequired")
    /\ ~params.fPowNoRetargeting
    /\ (call.pindexLast.nTime - call.nFirstBlockTime) * 2 = params.nPowTargetTimespan
    /\ call.pindexLast.nBits = Compact(3, 65535)
    /\ call.result = GetCompact(Half256(Decode(call.pindexLast.nBits)))
    /\ call.result # GetCompact(MulWord(
                          DivWord(Decode(call.pindexLast.nBits), params.nPowTargetTimespan),
                          params.nPowTargetTimespan \div 2))

-----------------------------------------------------------------------------
(* SpecChain: a chain of headers, each carrying the work GetNextWorkRequired asks *)

\* the time of the genesis block
GenesisTimes == { 1000000 }

\* the seconds between a block and its parent
BlockSpacings == { 100, 600, 1300, 5000 }

ChainNetworks ==
    { NetParams(MainPowLimit, FALSE, FALSE),
      NetParams(MainPowLimit, TRUE, FALSE),
      NetParams(MainPowLimit, FALSE, TRUE) }

InitChain ==
    /\ params \in ChainNetworks
    /\ \E t \in GenesisTimes :
           chain = << [nTime |-> t, nBits |-> GetCompact(UintToArith256(params.powLimit))] >>
    /\ call = [op |-> "none", pc |-> "done"]
    /\ NoCreditPool

\* A header on top of the tip: its required work is computed, and the header, which
\* carries that work, joins the block index when some hash can satisfy
\* CheckProofOfWork for it.
AcceptHeader ==
    /\ TipHeight(chain) < MaxHeight
    /\ \E dt \in BlockSpacings :
           LET pindexLast == BlockAt(chain, TipHeight(chain))
               blockTime  == pindexLast.nTime + dt
               nBits      == GetNextWorkRequired(chain, blockTime, params)
           IN  /\ call' = [op        |-> "GetNextWorkRequired",
                           pc        |-> "done",
                           nHeight   |-> TipHeight(chain),
                           nBits     |-> pindexLast.nBits,
                           blockTime |-> blockTime,
                           result    |-> nBits]
               /\ chain' = IF \E hash \in {Zero256} : CheckProofOfWork(hash, nBits, params)
                           THEN Append(chain, [nTime |-> blockTime, nBits |-> nBits])
                           ELSE chain
    /\ UNCHANGED <<params, creditPool, tipHeight, accepted>>

NextChain == AcceptHeader

SpecChain == InitChain /\ [][NextChain]_vars

\* the block index GetNextWorkRequired was last called on
CalledChain == SubSeq(chain, 1, call.nHeight + 1)

\* the last GetNextWorkRequired call delegated to BlockTimeVarianceAdjustment
Delegated ==
    /\ Returned("GetNextWorkRequired")
    /\ (call.nHeight + 1) % DifficultyAdjustmentInterval(params) # 0
    /\ ~params.fPowAllowMinDifficultyBlocks
    /\ call.nHeight + 1 > params.nPowRTHeight

\* C7: BlockTimeVarianceAdjustment returns powLimit's compact form when fewer than
\* nDifficultyAdjustmentRange + 1 blocks exist; otherwise the oldest sampled block,
\* whose time starts actualTimespan, is nDifficultyAdjustmentRange ancestors back,
\* at height prevHeader.height - nDifficultyAdjustmentRange.
C7_OldestSampledHeight ==
    Delegated =>
        IF call.nHeight + 1 < params.nDifficultyAdjustmentRange + 1
        THEN call.result = GetCompact(UintToArith256(params.powLimit))
        ELSE VarianceWalk(CalledChain, params, 1, call.nHeight, Zero256).pindex
                 = call.nHeight - params.nDifficultyAdjustmentRange

\* C8: with fPowAllowMinDifficultyBlocks false, the target GetNextWorkRequired
\* returns for height h = prevHeader.height + 1 is accepted by
\* PermittedDifficultyTransition(params, h, prevHeader.nBits, target).
C8_RequiredWorkPermitted ==
    (Returned("GetNextWorkRequired") /\ ~params.fPowAllowMinDifficultyBlocks) =>
        PermittedDifficultyTransition(params, call.nHeight + 1, call.nBits, call.result)

\* C9: on a chain whose blocks all carry non-zero targets <= powLimit, the target
\* GetNextWorkRequired returns passes the range check of CheckProofOfWork, so some
\* hash (the smallest one) satisfies it.
C9_RequiredWorkInRange ==
    Returned("GetNextWorkRequired") =>
        CheckProofOfWork(Zero256, call.result, params)

-----------------------------------------------------------------------------
(* evo/assetlocktx.cpp *)

\* maybe_error{}: no error
NoError == "no-error"

\* opcodetype OP_RETURN (0x6a)
OP_RETURN == 106

\* CAssetLockPayload::CURRENT_VERSION and CAssetUnlockPayload::CURRENT_VERSION
CURRENT_VERSION == 1

\* CAssetUnlockPayload::MAXIMUM_WITHDRAWALS
MAXIMUM_WITHDRAWALS == 32

\* the script OP_DUP OP_HASH160 <20 bytes> OP_EQUALVERIFY OP_CHECKSIG, the pushed
\* hash left out
P2PKHScript == <<118, 169, 20, 136, 172>>

\* the script OP_HASH160 <20 bytes> OP_EQUAL, the pushed hash left out
P2SHScript == <<169, 20, 135>>

\* CScript::IsPayToPublicKeyHash()
IsPayToPublicKeyHash(script) == script = P2PKHScript

\* the scan of tx.vout in CheckAssetLockTx from output i on, returnAmount so far
RECURSIVE ScanReturnOutputs(_, _, _)
ScanReturnOutputs(vout, i, returnAmount) ==
    IF i > Len(vout) THEN [error |-> NoError, returnAmount |-> returnAmount]
    ELSE
        LET script == vout[i].scriptPubKey
        IN  IF script = << >> \/ script[1] # OP_RETURN
            THEN ScanReturnOutputs(vout, i + 1, returnAmount)
            ELSE IF Len(script) # 2 \/ script[2] # 0
            THEN [error |-> "bad-assetlocktx-non-empty-return", returnAmount |-> returnAmount]
            ELSE IF vout[i].nValue <= 0
            THEN [error |-> "bad-assetlocktx-zeroout-return", returnAmount |-> returnAmount]
            ELSE IF returnAmount # 0
            THEN [error |-> "bad-assetlocktx-multiple-return", returnAmount |-> returnAmount]
            ELSE ScanReturnOutputs(vout, i + 1, vout[i].nValue)

\* the loop over getCreditOutputs() in CheckAssetLockTx from output i on,
\* creditOutputsAmount so far
RECURSIVE SumCreditOutputs(_, _, _)
SumCreditOutputs(outs, i, creditOutputsAmount) ==
    IF i > Len(outs) THEN [error |-> NoError, creditOutputsAmount |-> creditOutputsAmount]
    ELSE IF ~IsPayToPublicKeyHash(outs[i].scriptPubKey)
    THEN [error |-> "bad-assetlocktx-pubKeyHash",
          creditOutputsAmount |-> creditOutputsAmount + outs[i].nValue]
    ELSE SumCreditOutputs(outs, i + 1, creditOutputsAmount + outs[i].nValue)

\* CheckAssetLockTx comparing the credited amount with "at most" instead of "equal"
CheckAssetLockTx_AtMost(tx) ==
    IF tx.nType # "TRANSACTION_ASSET_LOCK" THEN "bad-assetlocktx-type"
    ELSE
        LET scan == ScanReturnOutputs(tx.vout, 1, 0)
            sum  == SumCreditOutputs(tx.payload.creditOutputs, 1, 0)
        IN  IF scan.error # NoError THEN scan.error
            ELSE IF scan.returnAmount = 0 THEN "bad-assetlocktx-no-return"
            ELSE IF ~tx.payloadOk THEN "bad-assetlocktx-payload"
            ELSE IF tx.payload.nVersion = 0 \/ tx.payload.nVersion > CURRENT_VERSION
            THEN "bad-assetlocktx-version"
            ELSE IF tx.payload.nType # 0 THEN "bad-assetlocktx-locktype"
            ELSE IF tx.payload.creditOutputs = << >>
            THEN "bad-assetlocktx-emptycreditoutputs"
            ELSE IF sum.error # NoError THEN sum.error
            ELSE IF sum.creditOutputsAmount > scan.returnAmount
            THEN "bad-assetlocktx-creditamount"
            ELSE NoError

CheckAssetLockTx(tx) ==
    IF tx.nType # "TRANSACTION_ASSET_LOCK" THEN "bad-assetlocktx-type"
    ELSE
        LET scan == ScanReturnOutputs(tx.vout, 1, 0)
            sum  == SumCreditOutputs(tx.payload.creditOutputs, 1, 0)
        IN  IF scan.error # NoError THEN scan.error
            ELSE IF scan.returnAmount = 0 THEN "bad-assetlocktx-no-return"
            ELSE IF ~tx.payloadOk THEN "bad-assetlocktx-payload"
            ELSE IF tx.payload.nVersion = 0 \/ tx.payload.nVersion > CURRENT_VERSION
            THEN "bad-assetlocktx-version"
            ELSE IF tx.payload.nType # 0 THEN "bad-assetlocktx-locktype"
            ELSE IF tx.payload.creditOutputs = << >>
            THEN "bad-assetlocktx-emptycreditoutputs"
            ELSE IF sum.error # NoError THEN sum.error
            ELSE IF sum.creditOutputsAmount # scan.returnAmount
            THEN "bad-assetlocktx-creditamount"
            ELSE NoError

\* a uint32_t: the value top * 2^31 + low
U32(x) == [top |-> 0, low |-> x]

\* uint32_t + int for an addend 0 <= k < 2^31, modulo 2^32
U32Add(r, k) ==
    IF r.low > 2147483647 - k
    THEN [top |-> 1 - r.top, low |-> r.low - (2147483647 - k) - 1]
    ELSE [top |-> r.top, low |-> r.low + k]

\* the conversion of a uint32_t to int (two's complement)
U32ToInt(r) == IF r.top = 0 THEN r.low ELSE r.low - 2147483647 - 1

\* int < uint32_t: the int operand is converted to unsigned
IntLessU32(h, r) ==
    IF h >= 0
    THEN r.top = 1 \/ h < r.low
    ELSE r.top = 1 /\ (h + 2147483647) + 1 < r.low

\* the local expiryHeight of getHeightToExpiry
expiryHeight == 48

\* CAssetUnlockPayload::getHeightToExpiry(): the uint32_t sum returned as int
getHeightToExpiry(payload) == U32ToInt(U32Add(payload.requestedHeight, expiryHeight))

\* llmq::quorumManager->ScanQuorums(llmqType, pindexTip, count): the most recent
\* count quorums seen from pindexTip
ScanQuorums(pindexTip, count) ==
    SubSeq(pindexTip.quorums, 1,
           IF Len(pindexTip.quorums) < count THEN Len(pindexTip.quorums) ELSE count)

\* the request id SHA256("plwdtx" + index)
RequestId(index) == <<"plwdtx", index>>

\* llmq::utils::BuildSignHash(llmqType, quorumHash, requestId, msgHash)
BuildSignHash(quorumHash, requestId, msgHash) == <<quorumHash, requestId, msgHash>>

\* CBLSSignature::VerifyInsecure(quorumPublicKey, signHash): a signature is the
\* quorum that made it and the hash it signed
VerifyInsecure(quorumSig, quorumHash, signHash) ==
    quorumSig.signer = quorumHash /\ quorumSig.signHash = signHash

\* CAssetUnlockPayload::VerifySig(msgHash, pindexTip); net.hasLLMQ is
\* Params().HasLLMQ(llmqTypeAssetLocks)
VerifySig(payload, msgHash, pindexTip, net) ==
    IF ~net.hasLLMQ THEN "bad-assetunlock-llmq-type"
    ELSE
        LET quorums  == ScanQuorums(pindexTip, 2)
            isActive == \E k \in 1..Len(quorums) : quorums[k] = payload.quorumHash
        IN  IF ~isActive THEN "bad-assetunlock-not-active-quorum"
            ELSE IF \/ IntLessU32(pindexTip.nHeight, payload.requestedHeight)
                    \/ pindexTip.nHeight >= getHeightToExpiry(payload)
            THEN "bad-assetunlock-too-late"
            ELSE IF VerifyInsecure(
                        payload.quorumSig, payload.quorumHash,
                        BuildSignHash(payload.quorumHash, RequestId(payload.index), msgHash))
            THEN NoError
            ELSE "bad-assetunlock-not-verified"

\* tx_copy.GetHash(): the hash of the transaction with quorumSig blanked
UnlockMsgHash(tx) ==
    <<Len(tx.vout), tx.payload.nVersion, tx.payload.index, tx.payload.fee,
      tx.payload.requestedHeight, tx.payload.quorumHash>>

\* CheckAssetUnlockTx without the look-up of the index in the credit pool
CheckAssetUnlockTx_NoIndexCheck(tx, pindexPrev, indexes, net) ==
    IF tx.nType # "TRANSACTION_ASSET_UNLOCK" THEN "bad-assetunlocktx-type"
    ELSE IF tx.vin # << >> THEN "bad-assetunlocktx-have-input"
    ELSE IF Len(tx.vout) > MAXIMUM_WITHDRAWALS THEN "bad-assetunlocktx-too-many-outs"
    ELSE IF ~tx.payloadOk THEN "bad-assetunlocktx-payload"
    ELSE IF tx.payload.nVersion = 0 \/ tx.payload.nVersion > CURRENT_VERSION
    THEN "bad-assetunlocktx-version"
    ELSE IF tx.payload.quorumHash \notin net.blockIndex THEN "bad-assetunlock-quorum-hash"
    ELSE VerifySig(tx.payload, UnlockMsgHash(tx), pindexPrev, net)

\* CheckAssetUnlockTx(tx, pindexPrev, creditPool); indexes is creditPool.indexes and
\* net.blockIndex the hashes LookupBlockIndex finds
CheckAssetUnlockTx(tx, pindexPrev, indexes, net) ==
    IF tx.nType # "TRANSACTION_ASSET_UNLOCK" THEN "bad-assetunlocktx-type"
    ELSE IF tx.vin # << >> THEN "bad-assetunlocktx-have-input"
    ELSE IF Len(tx.vout) > MAXIMUM_WITHDRAWALS THEN "bad-assetunlocktx-too-many-outs"
    ELSE IF ~tx.payloadOk THEN "bad-assetunlocktx-payload"
    ELSE IF tx.payload.nVersion = 0 \/ tx.payload.nVersion > CURRENT_VERSION
    THEN "bad-assetunlocktx-version"
    ELSE IF tx.payload.index \in indexes THEN "bad-assetunlock-duplicated-index"
    ELSE IF tx.payload.quorumHash \notin net.blockIndex THEN "bad-assetunlock-quorum-hash"
    ELSE VerifySig(tx.payload, UnlockMsgHash(tx), pindexPrev, net)

-----------------------------------------------------------------------------
(* SpecLock: CheckAssetLockTx applied to bounded transactions *)

\* the largest number of outputs of a modelled Asset Lock transaction
MaxVout == 2

\* the largest number of credit outputs of a modelled Asset Lock payload
MaxCreditOutputs == 2

\* all sequences over S of length at most n
SeqsUpTo(S, n) == UNION { [1..k -> S] : k \in 0..n }

TxOut(script, value) == [scriptPubKey |-> script, nValue |-> value]

LockOutputs ==
    { TxOut(<<OP_RETURN, 0>>, 4), TxOut(<<OP_RETURN, 0>>, 0), TxOut(<<OP_RETURN, 4>>, 4),
      TxOut(<<OP_RETURN>>, 4),    TxOut(P2PKHScript, 4),      TxOut(<< >>, 4) }

CreditOutputs ==
    { TxOut(P2PKHScript, v) : v \in {-1, 1, 4, 5} } \cup { TxOut(P2SHScript, 4) }

\* the type tag and the payload header: well formed, and each way of being wrong
LockEnvelopes ==
    { [nType |-> "TRANSACTION_ASSET_LOCK",   payloadOk |-> TRUE,  nVersion |-> 1, lockType |-> 0],
      [nType |-> "TRANSACTION_ASSET_UNLOCK", payloadOk |-> TRUE,  nVersion |-> 1, lockType |-> 0],
      [nType |-> "TRANSACTION_ASSET_LOCK",   payloadOk |-> FALSE, nVersion |-> 1, lockType |-> 0],
      [nType |-> "TRANSACTION_ASSET_LOCK",   payloadOk |-> TRUE,  nVersion |-> 0, lockType |-> 0],
      [nType |-> "TRANSACTION_ASSET_LOCK",   payloadOk |-> TRUE,
       nVersion |-> CURRENT_VERSION + 1, lockType |-> 0],
      [nType |-> "TRANSACTION_ASSET_LOCK",   payloadOk |-> TRUE,  nVersion |-> 1, lockType |-> 1] }

LockTx(e, vout, credit) ==
    [nType     |-> e.nType,
     vout      |-> vout,
     payloadOk |-> e.payloadOk,
     payload   |-> [nVersion |-> e.nVersion, nType |-> e.lockType, creditOutputs |-> credit]]

\* the network of the transaction validator: whether the asset-lock quorum type is
\* configured, and the block hashes of the block index
AssetNetworks ==
    { [hasLLMQ |-> b, blockIndex |-> {"qA", "qB", "qC"}] : b \in BOOLEAN }

InitLock ==
    /\ params \in { n \in AssetNetworks : n.hasLLMQ }
    /\ \E e \in LockEnvelopes, vout \in SeqsUpTo(LockOutputs, MaxVout),
          credit \in SeqsUpTo(CreditOutputs, MaxCreditOutputs) :
           call = [op |-> "CheckAssetLockTx", pc |-> "call", tx |-> LockTx(e, vout, credit)]
    /\ NoChain
    /\ NoCreditPool

CheckAssetLockTxCall ==
    /\ call.op = "CheckAssetLockTx"
    /\ call.pc = "call"
    /\ call' = [op     |-> "CheckAssetLockTx",
                pc     |-> "done",
                tx     |-> call.tx,
                result |-> CheckAssetLockTx(call.tx)]
    /\ UNCHANGED <<params, chain, creditPool, tipHeight, accepted>>

NextLock == CheckAssetLockTxCall

SpecLock == InitLock /\ [][NextLock]_vars

\* the burn outputs of a transaction: those whose script begins with OP_RETURN
BurnOutputs(tx) ==
    { i \in 1..Len(tx.vout) :
        tx.vout[i].scriptPubKey # << >> /\ tx.vout[i].scriptPubKey[1] = OP_RETURN }

\* the transaction has exactly one burn output, which carries no data and has the
\* positive value V
OneEmptyBurnOf(tx, V) ==
    /\ Cardinality(BurnOutputs(tx)) = 1
    /\ \A i \in BurnOutputs(tx) :
           tx.vout[i].scriptPubKey = <<OP_RETURN, 0>> /\ tx.vout[i].nValue = V
    /\ V > 0

\* the values a burn output of the transaction has
BurnValues(tx) == { tx.vout[i].nValue : i \in BurnOutputs(tx) }

\* the sum of the amounts of a sequence of outputs
RECURSIVE AmountOf(_)
AmountOf(outs) == IF outs = << >> THEN 0 ELSE Head(outs).nValue + AmountOf(Tail(outs))

AllPayToPublicKeyHash(outs) ==
    \A i \in 1..Len(outs) : outs[i].scriptPubKey = P2PKHScript

\* C3: CheckAssetLockTx accepts an Asset-Lock-typed transaction with a decodable
\* payload (version in [1, CURRENT_VERSION], lock type 0) that has exactly one burn
\* output, empty of data and of value V > 0, and a non-empty list of
\* pay-to-pubkey-hash credit outputs summing to V; it rejects a sum of V - 1 or V + 1,
\* a credit output that is not pay-to-pubkey-hash, two burn outputs, no burn output
\* and a burn output of value zero.
C3_LockAcceptance ==
    Returned("CheckAssetLockTx") =>
        LET tx     == call.tx
            credit == tx.payload.creditOutputs
        IN  /\ \A V \in BurnValues(tx) :
                   ( /\ tx.nType = "TRANSACTION_ASSET_LOCK"
                     /\ tx.payloadOk
                     /\ tx.payload.nVersion \in 1..CURRENT_VERSION
                     /\ tx.payload.nType = 0
                     /\ OneEmptyBurnOf(tx, V)
                     /\ credit # << >>
                     /\ AllPayToPublicKeyHash(credit)
                     /\ AmountOf(credit) = V ) => call.result = NoError
            /\ \A V \in BurnValues(tx) :
                   (OneEmptyBurnOf(tx, V) /\ tx.payloadOk
                       /\ AmountOf(credit) \in {V - 1, V + 1}) => call.result # NoError
            /\ (tx.payloadOk /\ ~AllPayToPublicKeyHash(credit)) => call.result # NoError
            /\ Cardinality(BurnOutputs(tx)) >= 2 => call.result # NoError
            /\ BurnOutputs(tx) = {} => call.result # NoError
            /\ 0 \in BurnValues(tx) => call.result # NoError

\* C3 witness: a transaction with one burn output of value V and two
\* pay-to-pubkey-hash credit outputs summing to V is accepted
C3_Witness ==
    /\ Returned("CheckAssetLockTx")
    /\ call.result = NoError
    /\ Len(call.tx.vout) = 2
    /\ Len(call.tx.payload.creditOutputs) = 2
    /\ \E V \in BurnValues(call.tx) :
           OneEmptyBurnOf(call.tx, V) /\ AmountOf(call.tx.payload.creditOutputs) = V

\* C10: in every transaction CheckAssetLockTx accepts, each credit output has an
\* amount >= 0 and <= the burn output's value V.
C10_CreditWithinBurn ==
    (Returned("CheckAssetLockTx") /\ call.result = NoError) =>
        \A V \in BurnValues(call.tx) :
            \A i \in 1..Len(call.tx.payload.creditOutputs) :
                /\ call.tx.payload.creditOutputs[i].nValue >= 0
                /\ call.tx.payload.creditOutputs[i].nValue <= V

-----------------------------------------------------------------------------
(* SpecSig: CAssetUnlockPayload::VerifySig applied to bounded payloads and tips *)

\* the largest int, and so the largest height of a block index
INT_MAX == 2147483647

\* requested heights: small ones, the ones next to 2^31 and the ones next to 2^32
SigRequestedHeights ==
    { U32(0), U32(1), U32(100), U32(INT_MAX - 100), U32(INT_MAX - 48), U32(INT_MAX - 47),
      U32(INT_MAX - 7), U32(INT_MAX),
      [top |-> 1, low |-> 0], [top |-> 1, low |-> INT_MAX - 47], [top |-> 1, low |-> INT_MAX] }

\* tip heights: fixed ones, and the ones at the edges of the window of r
SigTipHeights(r) ==
    {0, 99, 100, 147, 148, INT_MAX - 2, INT_MAX}
        \cup (IF r.top = 0
              THEN {r.low}
                     \cup (IF r.low > 0 THEN {r.low - 1} ELSE {})
                     \cup (IF r.low < INT_MAX THEN {r.low + 1} ELSE {})
                     \cup (IF r.low <= INT_MAX - 48 THEN {r.low + 47, r.low + 48} ELSE {})
              ELSE {})

\* the quorums ScanQuorums sees from a tip, most recent first
SigQuorumLists == { <<"qB", "qA">>, <<"qC", "qB", "qA">> }

\* the signatures tried on a message for an unlock index: the one of the quorum over
\* the sign hash, one of another signer, one over another request id
SigsFor(quorumHash, index, msgHash) ==
    { [signer |-> quorumHash, signHash |-> BuildSignHash(quorumHash, RequestId(index), msgHash)],
      [signer |-> "qZ",       signHash |-> BuildSignHash(quorumHash, RequestId(index), msgHash)],
      [signer |-> quorumHash,
       signHash |-> BuildSignHash(quorumHash, RequestId(index + 1), msgHash)] }

UnlockPayload(version, index, fee, r, quorumHash, sig) ==
    [nVersion        |-> version,
     index           |-> index,
     fee             |-> fee,
     requestedHeight |-> r,
     quorumHash      |-> quorumHash,
     quorumSig       |-> sig]

InitSig ==
    /\ params \in AssetNetworks
    /\ \E r \in SigRequestedHeights, q \in {"qA", "qB"}, quorums \in SigQuorumLists :
         \E h \in SigTipHeights(r), sig \in SigsFor(q, 1, <<"msg">>) :
           call = [op        |-> "VerifySig",
                   pc        |-> "call",
                   payload   |-> UnlockPayload(1, 1, 1, r, q, sig),
                   msgHash   |-> <<"msg">>,
                   pindexTip |-> [nHeight |-> h, quorums |-> quorums]]
    /\ NoChain
    /\ NoCreditPool

VerifySigCall ==
    /\ call.op = "VerifySig"
    /\ call.pc = "call"
    /\ call' = [op        |-> "VerifySig",
                pc        |-> "done",
                payload   |-> call.payload,
                msgHash   |-> call.msgHash,
                pindexTip |-> call.pindexTip,
                result    |-> VerifySig(call.payload, call.msgHash, call.pindexTip, params)]
    /\ UNCHANGED <<params, chain, creditPool, tipHeight, accepted>>

NextSig == VerifySigCall

SpecSig == InitSig /\ [][NextSig]_vars

\* the quorum of the payload is among the two scanned quorums and its signature
\* verifies against the sign hash
ActiveAndSigned(c) ==
    /\ params.hasLLMQ
    /\ \E k \in 1..Len(ScanQuorums(c.pindexTip, 2)) :
           ScanQuorums(c.pindexTip, 2)[k] = c.payload.quorumHash
    /\ c.payload.quorumSig.signer = c.payload.quorumHash
    /\ c.payload.quorumSig.signHash =
           BuildSignHash(c.payload.quorumHash, RequestId(c.payload.index), c.msgHash)

\* r <= h <= r + 47 over the integers, r being the requested height 2^31 * top + low
InWindow(r, h) ==
    /\ r.top = 0
    /\ r.low <= h
    /\ h - r.low <= 47

\* C2: for every requested height r and tip height h, an unlock whose quorum is
\* active and whose signature verifies is accepted by VerifySig if and only if
\* r <= h <= r + 47.
C2_AcceptedIffInWindow ==
    (Returned("VerifySig") /\ ActiveAndSigned(call)) =>
        (call.result = NoError <=> InWindow(call.payload.requestedHeight, call.pindexTip.nHeight))

-----------------------------------------------------------------------------
(* SpecUnlock: Asset Unlock transactions validated against the credit pool, each
   accepted index being consumed before the next validation *)

\* the largest unlock index of a modelled transaction
MaxIndex == 2

\* the number of blocks the tip advances in the model
MaxTipAdvance == 1

\* the height of the tip in the initial state
StartHeights == {100}

\* the quorums ScanQuorums sees from a tip of height h: the quorum cycle rotates at
\* every odd height
ActiveQuorums(h) == IF h % 2 = 0 THEN <<"qB", "qA">> ELSE <<"qC", "qB">>

UnlockTx(nType, vin, nOut, payloadOk, payload) ==
    [nType     |-> nType,
     vin       |-> vin,
     vout      |-> [k \in 1..nOut |-> TxOut(P2PKHScript, 1)],
     payloadOk |-> payloadOk,
     payload   |-> payload]

\* an unlock transaction of the given fields, signed in the given way (1: by its
\* quorum, 2: by another signer, 3: over another request id)
SignedUnlockTx(nOut, index, fee, r, q, way) ==
    LET unsigned == UnlockTx("TRANSACTION_ASSET_UNLOCK", << >>, nOut, TRUE,
                             UnlockPayload(1, index, fee, r, q, [signer |-> "", signHash |-> << >>]))
        msgHash  == UnlockMsgHash(unsigned)
        sig      == IF way = 1
                    THEN [signer |-> q, signHash |-> BuildSignHash(q, RequestId(index), msgHash)]
                    ELSE IF way = 2
                    THEN [signer |-> "qZ", signHash |-> BuildSignHash(q, RequestId(index), msgHash)]
                    ELSE [signer |-> q, signHash |-> BuildSignHash(q, RequestId(index + 1), msgHash)]
    IN  [unsigned EXCEPT !.payload.quorumSig = sig]

\* the transactions offered at a tip of height h
UnlockTxs(h) ==
    { SignedUnlockTx(nOut, index, fee, U32(r), q, way) :
        nOut \in {1}, index \in 1..MaxIndex, fee \in {1, 2},
        r \in {h - 48, h - 47, h, h + 1}, q \in {"qA", "qC", "qX"}, way \in {1, 2} }
      \cup { SignedUnlockTx(nOut, index, 1, U32(h), "qB", way) :
               nOut \in {2, MAXIMUM_WITHDRAWALS + 1}, index \in 1..MaxIndex, way \in {1, 3} }
      \cup { [SignedUnlockTx(1, index, 1, U32(h), "qB", 1) EXCEPT !.nType = "TRANSACTION_ASSET_LOCK"] :
               index \in 1..MaxIndex }
      \cup { [SignedUnlockTx(1, index, 1, U32(h), "qB", 1) EXCEPT !.vin = <<"in">>] :
               index \in 1..MaxIndex }
      \cup { [SignedUnlockTx(1, index, 1, U32(h), "qB", 1) EXCEPT !.payloadOk = FALSE] :
               index \in 1..MaxIndex }
      \cup { SignedUnlockTx(1, index, 1, U32(h), "qB", 1) : index \in 1..MaxIndex }

InitUnlock ==
    /\ params \in { n \in AssetNetworks : n.hasLLMQ }
    /\ chain = << >>
    /\ creditPool = {}
    /\ tipHeight \in StartHeights
    /\ accepted = [i \in 1..MaxIndex |-> 0]
    /\ call = [op |-> "none", pc |-> "done"]

\* ProcessSpecialTx of an Asset Unlock: CheckAssetUnlockTx against the credit pool of
\* the previous block, and the index of an accepted transaction added to the pool
ProcessAssetUnlock ==
    \E tx \in UnlockTxs(tipHeight) :
        LET pindexPrev == [nHeight |-> tipHeight, quorums |-> ActiveQuorums(tipHeight)]
            result     == CheckAssetUnlockTx(tx, pindexPrev, creditPool, params)
        IN  /\ call' = [op      |-> "CheckAssetUnlockTx",
                        pc      |-> "done",
                        tx      |-> tx,
                        indexes |-> creditPool,
                        nHeight |-> tipHeight,
                        result  |-> result]
            /\ IF result = NoError
               THEN /\ creditPool' = creditPool \cup {tx.payload.index}
                    /\ accepted' = [accepted EXCEPT ![tx.payload.index] = @ + 1]
               ELSE UNCHANGED <<creditPool, accepted>>
            /\ UNCHANGED <<params, chain, tipHeight>>

\* a block is connected: the tip moves up by one
ConnectTip ==
    /\ \A s \in StartHeights : tipHeight < s + MaxTipAdvance
    /\ tipHeight' = tipHeight + 1
    /\ UNCHANGED <<params, chain, creditPool, accepted, call>>

NextUnlock == ProcessAssetUnlock \/ ConnectTip

SpecUnlock == InitUnlock /\ [][NextUnlock]_vars

\* C1: CheckAssetUnlockTx rejects every transaction whose payload index is already
\* in creditPool.indexes, whatever its other fields are, so that with each accepted
\* index consumed before the next validation no index is accepted twice.
C1_NoIndexTwice ==
    /\ \A i \in DOMAIN accepted : accepted[i] <= 1
    /\ (Returned("CheckAssetUnlockTx") /\ call.tx.payload.index \in call.indexes)
           => call.result # NoError

\* C1 witness: an index was accepted once, and a transaction reusing it with another
\* fee, which passes every other check, is rejected as a duplicate
C1_Witness ==
    /\ Returned("CheckAssetUnlockTx")
    /\ call.tx.payload.index \in call.indexes
    /\ accepted[call.tx.payload.index] = 1
    /\ call.tx.payload.fee = 2
    /\ call.result = "bad-assetunlock-duplicated-index"
    /\ CheckAssetUnlockTx(call.tx, [nHeight |-> call.nHeight, quorums |-> ActiveQuorums(call.nHeight)],
                          {}, params) = NoError

=============================================================================
